---- MODULE Spec2Model ----
(***************************************************************************)
(* panic-context (src/src/lib.rs): per-thread stores of context messages,  *)
(* scoped handles that own one id each, and a process-wide panic hook,     *)
(* installed once, that dumps the panicking thread's store to stderr       *)
(* before it calls the hook that was registered before it.                 *)
(*                                                                         *)
(* A thread is in user code ("run"), inside a constructor (holding the     *)
(* INITIALIZED lock in "init"/"sethook", or past ensure_initialized in     *)
(* "alloc"), inside the panic hook ("hook"), or unwinding ("unwind").      *)
(* Strings are TLA+ strings; a write to stderr either accepts the whole    *)
(* buffer or returns an error.                                             *)
(***************************************************************************)
EXTENDS Integers, Sequences, FiniteSets, TLC

\* ---------------------------------------------------------------- bounds
Threads == {1, 2}
MaxNew == 2          \* constructor calls made in the process
MaxPanics == 2       \* panics raised by user code in the process

Msgs == {"i=2"}                  \* messages given to PanicContext::new
Prefixes == {"step: "}           \* prefixes given to panic_context
UpdValues == {"initialization", "compilation"}   \* values given to update
PanicMsgs == {"boom"}            \* payloads of user panics
FailAts == 0 .. 3                \* the write of a dump that fails (see Dump)

Header == "Panic context:\n"
NL == "\n"
HookPanicMsg == "cannot modify the panic hook from a panicking thread"
PoisonMsg == "PoisonError"

VARIABLES
    INITIALIZED,    \* the bool inside the Mutex
    lockOwner,      \* thread holding the INITIALIZED mutex, 0 when free
    guardPanicking, \* thread::panicking() when the current guard was made
    poisoned,       \* the mutex's poison flag
    HOOK,           \* the process panic hook, outermost layer first
    aborted,        \* the process has aborted
    VALUES,         \* per thread: [next_id, values]
    borrowed,       \* per thread: the RefCell is mutably borrowed
    handles,        \* per thread: id -> the handle made for it (see NewHandle)
    pc,             \* per thread: position
    op,             \* per thread: the constructor call in progress
    previous_hook,  \* per thread: init's local previous_hook
    panicCount,     \* per thread: the runtime's panic count
    hookrun,        \* per thread: the current / latest run of the panic hook
    hist            \* counts: constructor calls, user panics, init() calls, failed constructors

vars == <<INITIALIZED, lockOwner, guardPanicking, poisoned, HOOK, aborted,
          VALUES, borrowed, handles, pc, op, previous_hook, panicCount,
          hookrun, hist>>

lockVars == <<lockOwner, guardPanicking, poisoned>>

NoOp == [kind |-> "none", text |-> "", intoPanics |-> FALSE]

EmptyMap == [k \in {} |-> ""]

\* A run of the panic hook: the layers still to call, the panic's info, the
\* info handed to the next layer, what the successful writes put on stderr,
\* the ids whose text was written, and what happened on the way.
NoRun == [hk |-> <<>>, info |-> "", arg |-> "", out |-> <<>>, ids |-> <<>>,
          ioerr |-> FALSE, dumps |-> 0, prevCalls |-> 0, prevInfo |-> "",
          prevAt |-> 0, installed |-> FALSE, writePanicked |-> FALSE,
          hookPanicked |-> FALSE]

\* (sinceTaken: -1 until other code takes the process hook away, then whether
\* a constructor was called since, 0 or 1)
NoHist == [nNew |-> 0, nPanics |-> 0, initCalls |-> 0, installs |-> 0, failedNew |-> 0,
           sinceTaken |-> -1]

\* The history with one more constructor call
CountNew(h) == [h EXCEPT !.nNew = @ + 1, !.sinceTaken = IF @ = 0 THEN 1 ELSE @]

\* A handle: the struct's fields (prefix; the id is the key it is filed under)
\* and its history: kind, the text last given to it (the message, or the last
\* update value), how its scope ended ("" while live, "exit", "unwind"),
\* whether update was called, and whether the first update came when a
\* later-created handle already had an entry.
NewHandle(kind, prefix, msg) ==
    [kind |-> kind, prefix |-> prefix, last |-> msg, end |-> "",
     updated |-> FALSE, late |-> FALSE]

\* ------------------------------------------------------------ the store
\* BTreeMap::insert
MapInsert(m, k, v) == [x \in (DOMAIN m) \cup {k} |-> IF x = k THEN v ELSE m[x]]

\* BTreeMap::remove
MapRemove(m, k) == [x \in (DOMAIN m) \ {k} |-> m[x]]

\* BTreeMap::iter: the keys in ascending order
RECURSIVE KeysAscending(_)
KeysAscending(S) ==
    IF S = {} THEN <<>>
    ELSE LET lo == CHOOSE x \in S : \A y \in S : x <= y
         IN <<lo>> \o KeysAscending(S \ {lo})

\* A faulty variant: the keys in descending order
RECURSIVE KeysDescending(_)
KeysDescending(S) ==
    IF S = {} THEN <<>>
    ELSE LET hi == CHOOSE x \in S : \A y \in S : x >= y
         IN <<hi>> \o KeysDescending(S \ {hi})

MapIter_descending(m) == KeysDescending(DOMAIN m)
MapIter(m) == KeysAscending(DOMAIN m)

\* thread_local!: the store a thread reaches through VALUES.with
\* (VALUES_with_static: a faulty variant, one store for the process)
VALUES_with_static(t) == 1
VALUES_with(t) == t

\* add_entry: the store after the call; the id returned is s.next_id
\* (add_entry_reuse: a faulty variant that does not bump next_id)
add_entry_reuse(s, value) ==
    [next_id |-> s.next_id,
     values |-> IF value.some THEN MapInsert(s.values, s.next_id, value.v)
                ELSE s.values]
add_entry(s, value) ==
    [next_id |-> s.next_id + 1,
     values |-> IF value.some THEN MapInsert(s.values, s.next_id, value.v)
                ELSE s.values]

\* Option<String>: None, Some(v) (None_stored: a faulty variant of the None
\* that UpdatablePanicContext::new passes, an empty text that is stored)
None_stored == [some |-> TRUE, v |-> ""]
None == [some |-> FALSE, v |-> ""]
Some(v) == [some |-> TRUE, v |-> v]

\* update_entry (update_entry_append: a faulty variant that files the new
\* text under a fresh key instead of the handle's id)
update_entry_append(s, id, value) ==
    [next_id |-> s.next_id, values |-> MapInsert(MapRemove(s.values, id), s.next_id, value)]
update_entry(s, id, value) ==
    [next_id |-> s.next_id, values |-> MapInsert(s.values, id, value)]

\* UpdatablePanicContext::update: buf = prefix + value
update_buf(prefix, value) == prefix \o value

\* Drop for PanicContext: values.remove(&self.id)
\* (drop_keep: a faulty variant that removes nothing; drop_clear: one that
\* clears the whole mapping)
drop_keep(s, id) == s
drop_clear(s, id) == [next_id |-> s.next_id, values |-> EmptyMap]
drop_PanicContext(s, id) == [next_id |-> s.next_id, values |-> MapRemove(s.values, id)]

\* UpdatablePanicContext has no Drop impl: releasing it leaves the store alone
\* (drop_Updatable_remove: a faulty variant, a Drop impl like PanicContext's)
drop_Updatable_remove(s, id) == [next_id |-> s.next_id, values |-> MapRemove(s.values, id)]
drop_Updatable(s, id) == s

\* ------------------------------------------------------ the dump routine
\* The writes of a dump are numbered from 1, the header being write 1; at
\* most one of them returns Err, write failAt (0: none does; a failAt beyond
\* the dump's last write: none does either).
\* The for loop of the hook closure: i is the number of the next write. Each
\* write is unwrapped: an Err panics inside the hook.
RECURSIVE DumpLoop(_, _, _, _, _)
DumpLoop(keys, m, failAt, i, acc) ==
    IF keys = <<>> THEN acc
    ELSE LET k == Head(keys) IN
         IF failAt = i
         THEN [acc EXCEPT !.panicked = TRUE]
         ELSE IF failAt = i + 1
         THEN [out |-> acc.out \o <<m[k]>>, ids |-> acc.ids \o <<k>>, panicked |-> TRUE]
         ELSE DumpLoop(Tail(keys), m, failAt, i + 2,
                       [out |-> acc.out \o <<m[k], NL>>, ids |-> acc.ids \o <<k>>,
                        panicked |-> FALSE])

\* The body of VALUES.with in the hook closure, after traces.borrow():
\* the header's write error is discarded (let _ =), the loop follows.
Dump(s, failAt) ==
    DumpLoop(MapIter(s.values), s.values, failAt, 2,
             [out |-> IF failAt = 1 THEN <<>> ELSE <<Header>>, ids |-> <<>>,
              panicked |-> FALSE])

\* The report of the hook that was registered before init (the default hook)
DefaultReport(info) == "thread panicked: " \o info

\* ------------------------------------------------------------ the state
Init ==
    /\ INITIALIZED = FALSE
    /\ lockOwner = 0
    /\ guardPanicking = FALSE
    /\ poisoned = FALSE
    /\ HOOK = <<"default">>
    /\ aborted = FALSE
    /\ VALUES = [t \in Threads |-> [next_id |-> 0, values |-> EmptyMap]]
    /\ borrowed = [t \in Threads |-> FALSE]
    /\ handles = [t \in Threads |-> EmptyMap]
    /\ pc = [t \in Threads |-> "run"]
    /\ op = [t \in Threads |-> NoOp]
    /\ previous_hook = [t \in Threads |-> <<>>]
    /\ panicCount = [t \in Threads |-> 0]
    /\ hookrun = [t \in Threads |-> NoRun]
    /\ hist = NoHist

Panicking(t) == panicCount[t] > 0

\* where a call returns to: user code, or a destructor run by the unwinder
Resume(t) == IF Panicking(t) THEN "unwind" ELSE "run"

InUserCode(t) == ~aborted /\ pc[t] \in {"run", "unwind"}

\* The ids whose handle is in scope on t
Live(t) == {id \in DOMAIN handles[t] : handles[t][id].end = ""}

\* The constructor calls user code can make
NewOps ==
    [kind : {"fixed"}, text : Msgs, intoPanics : BOOLEAN]
    \cup [kind : {"updatable"}, text : Prefixes, intoPanics : {FALSE}]

\* The runtime starts a panic on t: the panic count goes up and the hook
\* registered at this instant is called with the panic's info.
StartPanic(t, msg) ==
    /\ pc' = [pc EXCEPT ![t] = "hook"]
    /\ panicCount' = [panicCount EXCEPT ![t] = @ + 1]
    /\ hookrun' = [hookrun EXCEPT ![t] =
                     [NoRun EXCEPT !.hk = HOOK, !.info = msg, !.arg = msg,
                                   !.installed = (Head(HOOK) = "dump")]]
    /\ op' = [op EXCEPT ![t] = NoOp]

\* MutexGuard drop: the mutex is poisoned when the thread began to panic
\* while it held the guard.
Unlock(t) ==
    /\ lockOwner' = 0
    /\ poisoned' = (poisoned \/ (~guardPanicking /\ Panicking(t)))
    /\ guardPanicking' = FALSE

\* panic::set_hook(Box::new(move |info| { dump; previous_hook(info) })): the
\* process hook after the call (DumpHook_dropped: a faulty variant that puts
\* the previous hook back without the dump)
DumpHook_dropped(prev) == prev
DumpHook(prev) == <<"dump">> \o prev

\* *initialized = true (InitializedAfterInit_unset: a faulty variant)
InitializedAfterInit_unset == FALSE
InitializedAfterInit == TRUE

\* ----------------------------------------------------------- the actions
\* PanicContext::new after ensure_initialized: borrow_mut, take the id,
\* bump next_id, then msg.into() (user code, may panic with the store still
\* borrowed) and the insert. h is the history so far.
PanicContext_new(t, o, h) ==
    LET w == VALUES_with(t)
        s == VALUES[w]
        id == s.next_id
    IN IF o.intoPanics
       THEN /\ VALUES' = [VALUES EXCEPT ![w] = [s EXCEPT !.next_id = @ + 1]]
            /\ borrowed' = [borrowed EXCEPT ![w] = TRUE]
            /\ \E m \in PanicMsgs : StartPanic(t, m)
            /\ hist' = [h EXCEPT !.nPanics = @ + 1]
            /\ UNCHANGED handles
       ELSE /\ VALUES' = [VALUES EXCEPT ![w] =
                            [next_id |-> s.next_id + 1,
                             values |-> MapInsert(s.values, id, o.text)]]
            /\ handles' = [handles EXCEPT ![t] = MapInsert(@, id,
                             NewHandle("fixed", "", o.text))]
            /\ pc' = [pc EXCEPT ![t] = Resume(t)]
            /\ op' = [op EXCEPT ![t] = NoOp]
            /\ hist' = h
            /\ UNCHANGED <<borrowed, panicCount, hookrun>>

\* UpdatablePanicContext::new after ensure_initialized: add_entry(None)
UpdatablePanicContext_new(t, o, h) ==
    LET w == VALUES_with(t)
        s == VALUES[w]
        id == s.next_id
    IN /\ VALUES' = [VALUES EXCEPT ![w] = add_entry(s, None)]
       /\ handles' = [handles EXCEPT ![t] = MapInsert(@, id,
                        NewHandle("updatable", o.text, ""))]
       /\ pc' = [pc EXCEPT ![t] = Resume(t)]
       /\ op' = [op EXCEPT ![t] = NoOp]
       /\ hist' = h
       /\ UNCHANGED <<borrowed, panicCount, hookrun>>

\* The constructor named by o, from the return of ensure_initialized on
Construct(t, o, h) ==
    IF o.kind = "fixed" THEN PanicContext_new(t, o, h)
    ELSE UpdatablePanicContext_new(t, o, h)

\* A call of PanicContext::new / UpdatablePanicContext::new. It begins with
\* ensure_initialized: INITIALIZED.lock().unwrap() (waits for the lock,
\* panics when it is poisoned); with the flag set the guard is dropped at
\* once and the constructor goes on to its end; with the flag unset init()
\* is entered with the lock held.
New(t, o) ==
    /\ InUserCode(t)
    /\ lockOwner = 0
    /\ hist.nNew < MaxNew
    /\ o.intoPanics => hist.nPanics < MaxPanics
    /\ IF poisoned
       THEN /\ StartPanic(t, PoisonMsg)
            /\ hist' = [CountNew(hist) EXCEPT !.failedNew = @ + 1]
            /\ UNCHANGED <<lockVars, VALUES, borrowed, handles>>
       ELSE IF INITIALIZED
       THEN /\ Construct(t, o, CountNew(hist))
            /\ UNCHANGED lockVars
       ELSE /\ lockOwner' = t
            /\ guardPanicking' = Panicking(t)
            /\ pc' = [pc EXCEPT ![t] = "init"]
            /\ op' = [op EXCEPT ![t] = o]
            /\ hist' = [CountNew(hist) EXCEPT !.initCalls = @ + 1]
            /\ UNCHANGED <<poisoned, panicCount, hookrun, VALUES, borrowed, handles>>
    /\ UNCHANGED <<INITIALIZED, HOOK, aborted, previous_hook>>

\* No thread is inside the hook (the hook lock is free for a writer)
HookLockFree == \A u \in Threads : pc[u] # "hook"

\* init(): let previous_hook = panic::take_hook(). take_hook panics on a
\* panicking thread; the guard is still held while the hook runs.
init_take_hook(t) ==
    /\ ~aborted
    /\ pc[t] = "init"
    /\ HookLockFree
    /\ IF Panicking(t)
       THEN /\ StartPanic(t, HookPanicMsg)
            /\ hist' = [hist EXCEPT !.failedNew = @ + 1]
            /\ UNCHANGED <<HOOK, previous_hook>>
       ELSE /\ previous_hook' = [previous_hook EXCEPT ![t] = HOOK]
            /\ HOOK' = <<"default">>
            /\ pc' = [pc EXCEPT ![t] = "sethook"]
            /\ UNCHANGED <<hist, panicCount, hookrun, op>>
    /\ UNCHANGED <<INITIALIZED, lockVars, aborted, VALUES, borrowed, handles>>

\* init(): panic::set_hook(closure calling previous_hook); back in
\* ensure_initialized: *initialized = true, and the guard is dropped.
init_set_hook(t) ==
    /\ ~aborted
    /\ pc[t] = "sethook"
    /\ HookLockFree
    /\ HOOK' = DumpHook(previous_hook[t])
    /\ previous_hook' = [previous_hook EXCEPT ![t] = <<>>]
    /\ INITIALIZED' = InitializedAfterInit
    /\ Unlock(t)
    /\ pc' = [pc EXCEPT ![t] = "alloc"]
    /\ hist' = [hist EXCEPT !.installs = @ + 1]
    /\ UNCHANGED <<aborted, VALUES, borrowed, handles, op, panicCount, hookrun>>

\* The constructor that called init() goes on after ensure_initialized
NewAfterInit(t) ==
    /\ ~aborted
    /\ pc[t] = "alloc"
    /\ Construct(t, op[t], hist)
    /\ UNCHANGED <<INITIALIZED, lockVars, HOOK, aborted, previous_hook>>

\* UpdatablePanicContext::update: value.into() runs before the store is
\* borrowed; update_entry(self.id, prefix + value).
update(t, id, value, intoPanics) ==
    /\ InUserCode(t)
    /\ id \in Live(t)
    /\ handles[t][id].kind = "updatable"
    /\ intoPanics => hist.nPanics < MaxPanics
    /\ IF intoPanics
       THEN /\ \E m \in PanicMsgs : StartPanic(t, m)
            /\ hist' = [hist EXCEPT !.nPanics = @ + 1]
            /\ UNCHANGED <<VALUES, handles>>
       ELSE /\ LET w == VALUES_with(t) IN
               VALUES' = [VALUES EXCEPT ![w] =
                            update_entry(VALUES[w], id,
                                         update_buf(handles[t][id].prefix, value))]
            /\ handles' = [handles EXCEPT
                  ![t][id].updated = TRUE,
                  ![t][id].last = value,
                  ![t][id].late = IF handles[t][id].updated THEN @
                                  ELSE \E j \in DOMAIN VALUES[t].values : j > id]
            /\ UNCHANGED <<pc, op, panicCount, hookrun, hist>>
    /\ UNCHANGED <<INITIALIZED, lockVars, HOOK, aborted, borrowed, previous_hook>>

\* A PanicContext goes out of scope (normal exit or unwinding): Drop::drop
Drop_PanicContext(t, id) ==
    /\ InUserCode(t)
    /\ id \in Live(t)
    /\ handles[t][id].kind = "fixed"
    /\ LET w == VALUES_with(t) IN
       VALUES' = [VALUES EXCEPT ![w] = drop_PanicContext(VALUES[w], id)]
    /\ handles' = [handles EXCEPT ![t][id].end =
                                     IF Panicking(t) THEN "unwind" ELSE "exit"]
    /\ UNCHANGED <<INITIALIZED, lockVars, HOOK, aborted, borrowed, pc, op,
                   previous_hook, panicCount, hookrun, hist>>

\* An UpdatablePanicContext goes out of scope: the type has no Drop impl
Drop_UpdatablePanicContext(t, id) ==
    /\ InUserCode(t)
    /\ id \in Live(t)
    /\ handles[t][id].kind = "updatable"
    /\ LET w == VALUES_with(t) IN
       VALUES' = [VALUES EXCEPT ![w] = drop_Updatable(VALUES[w], id)]
    /\ handles' = [handles EXCEPT ![t][id].end =
                                     IF Panicking(t) THEN "unwind" ELSE "exit"]
    /\ UNCHANGED <<INITIALIZED, lockVars, HOOK, aborted, borrowed, pc, op,
                   previous_hook, panicCount, hookrun, hist>>

\* User code panics: panic!("boom")
Panic(t, msg) ==
    /\ ~aborted
    /\ pc[t] = "run"
    /\ hist.nPanics < MaxPanics
    /\ StartPanic(t, msg)
    /\ hist' = [hist EXCEPT !.nPanics = @ + 1]
    /\ UNCHANGED <<INITIALIZED, lockVars, HOOK, aborted, VALUES, borrowed, handles,
                   previous_hook>>

\* A panic inside the panic hook: the runtime aborts the process
AbortInHook(t) ==
    /\ aborted' = TRUE
    /\ pc' = [pc EXCEPT ![t] = "aborted"]

\* The process hook called with a panic's info, layer by layer. The closure
\* installed by init: traces.borrow() (panics when the store is mutably
\* borrowed), the dump, then previous_hook(info). The hook registered before
\* init (the default hook) prints its report. s is the panicking thread's
\* store, b whether it is mutably borrowed, run the record of the run.
RECURSIVE RunHook(_, _, _, _, _)
RunHook(hk, s, b, failAt, run) ==
    IF hk = <<>> THEN run
    ELSE IF Head(hk) = "dump"
    THEN IF b
         THEN [run EXCEPT !.hookPanicked = TRUE]
         ELSE LET r == Dump(s, failAt)
                  after == [run EXCEPT !.out = @ \o r.out,
                                       !.ids = @ \o r.ids,
                                       !.ioerr = @ \/ failAt # 0,
                                       !.dumps = @ + 1,
                                       !.writePanicked = r.panicked,
                                       !.hookPanicked = r.panicked]
              IN IF r.panicked THEN after
                 ELSE RunHook(Tail(hk), s, b, failAt, [after EXCEPT !.hk = Tail(hk)])
    ELSE [run EXCEPT !.out = @ \o <<DefaultReport(run.arg)>>,
                     !.prevCalls = @ + 1,
                     !.prevInfo = run.arg,
                     !.prevAt = Len(run.out) + 1,
                     !.hk = <<>>]

\* The runtime calls the hook for the panic raised on t. stderr is locked for
\* the whole of a dump. A panic inside the hook aborts the process.
Hook(t, failAt) ==
    /\ ~aborted
    /\ pc[t] = "hook"
    /\ hookrun[t].hk # <<>>
    /\ LET w == VALUES_with(t)
           r == RunHook(hookrun[t].hk, VALUES[w], borrowed[w], failAt, hookrun[t])
       IN /\ hookrun' = [hookrun EXCEPT ![t] = r]
          /\ IF r.hookPanicked
             THEN AbortInHook(t)
             ELSE UNCHANGED <<aborted, pc>>
    /\ UNCHANGED <<INITIALIZED, lockVars, HOOK, VALUES, borrowed, handles, op,
                   previous_hook, panicCount, hist>>

\* The hook has returned and the stack unwinds: the frames of the call that
\* panicked are left (a held guard or RefMut is dropped), then destructors
\* of user code run. A panic raised while unwinding is caught inside the
\* destructor that raised it ...
Unwind(t) ==
    /\ ~aborted
    /\ pc[t] = "hook"
    /\ hookrun[t].hk = <<>>
    /\ pc' = [pc EXCEPT ![t] = "unwind"]
    /\ panicCount' = [panicCount EXCEPT ![t] = IF @ > 1 THEN @ - 1 ELSE @]
    /\ borrowed' = [borrowed EXCEPT ![VALUES_with(t)] = FALSE]
    /\ IF lockOwner = t THEN Unlock(t) ELSE UNCHANGED lockVars
    /\ hookrun' = [hookrun EXCEPT ![t] = NoRun]
    /\ UNCHANGED <<INITIALIZED, HOOK, aborted, VALUES, handles, op, previous_hook, hist>>

\* ... or it is not, and the runtime aborts (a panic while panicking)
AbortNested(t) ==
    /\ ~aborted
    /\ pc[t] = "hook"
    /\ hookrun[t].hk = <<>>
    /\ panicCount[t] > 1
    /\ aborted' = TRUE
    /\ pc' = [pc EXCEPT ![t] = "aborted"]
    /\ UNCHANGED <<INITIALIZED, lockVars, HOOK, VALUES, borrowed, handles, op,
                   previous_hook, panicCount, hookrun, hist>>

\* catch_unwind stops the unwinding; handles of outer scopes stay live
Caught(t) ==
    /\ ~aborted
    /\ pc[t] = "unwind"
    /\ panicCount[t] = 1
    /\ pc' = [pc EXCEPT ![t] = "run"]
    /\ panicCount' = [panicCount EXCEPT ![t] = 0]
    /\ UNCHANGED <<INITIALIZED, lockVars, HOOK, aborted, VALUES, borrowed, handles,
                   op, previous_hook, hookrun, hist>>

Next ==
    \E t \in Threads :
        \/ \E o \in NewOps : New(t, o)
        \/ init_take_hook(t)
        \/ init_set_hook(t)
        \/ NewAfterInit(t)
        \/ \E id \in Live(t), v \in UpdValues, b \in BOOLEAN : update(t, id, v, b)
        \/ \E id \in Live(t) : Drop_PanicContext(t, id)
        \/ \E id \in Live(t) : Drop_UpdatablePanicContext(t, id)
        \/ \E m \in PanicMsgs : Panic(t, m)
        \/ \E failAt \in FailAts : Hook(t, failAt)
        \/ Unwind(t)
        \/ AbortNested(t)
        \/ Caught(t)

Spec == Init /\ [][Next]_vars

\* The process hook is a global of the runtime that any code can change the
\* way init() does: other code on t calls panic::take_hook(), which hands it
\* the registered hook (dropped, or kept for its own use) and registers the
\* default hook in its place. take_hook waits while a hook is running.
take_hook_by_other_code(t) ==
    /\ ~aborted
    /\ pc[t] = "run"
    /\ HookLockFree
    /\ Head(HOOK) = "dump"
    /\ HOOK' = <<"default">>
    /\ hist' = [hist EXCEPT !.sinceTaken = 0]
    /\ UNCHANGED <<INITIALIZED, lockVars, aborted, VALUES, borrowed, handles, pc,
                   op, previous_hook, panicCount, hookrun>>

NextWithOtherCode ==
    \/ Next
    \/ \E t \in Threads : take_hook_by_other_code(t)

\* The library used in a process where other code changes the panic hook too
SpecWithOtherCode == Init /\ [][NextWithOtherCode]_vars

\* ------------------------------------------------------------ the claims
Range(q) == {q[i] : i \in DOMAIN q}

\* The hook's dump has run to its end on t and t is still inside the hook
\* (the store is as it was at the instant of the panic)
DumpDone(t) == pc[t] = "hook" /\ hookrun[t].dumps > 0

\* ... and stderr accepted every write of it
DumpWritten(t) == DumpDone(t) /\ ~hookrun[t].ioerr

\* What the dump put on stderr (the previous hook's report comes after it)
DumpPart(t) ==
    IF hookrun[t].prevCalls > 0
    THEN SubSeq(hookrun[t].out, 1, hookrun[t].prevAt - 1)
    ELSE hookrun[t].out

\* The k-th smallest key of a mapping
KthKey(m, k) == CHOOSE x \in DOMAIN m : Cardinality({y \in DOMAIN m : y < x}) = k - 1

\* The header line, then one line per entry in ascending id order
ExpectedDump(m) ==
    <<Header>> \o [i \in 1 .. 2 * Cardinality(DOMAIN m) |->
                     IF i % 2 = 1 THEN m[KthKey(m, (i + 1) \div 2)] ELSE NL]

\* The place of id among the entries of m, counted from 1
Rank(m, id) == Cardinality({j \in DOMAIN m : j < id}) + 1

\* The text a handle stands for: its message, or prefix + last value
TextOf(h) == IF h.kind = "fixed" THEN h.last ELSE h.prefix \o h.last

\* C1: a dump whose writes stderr accepts consists of the header line
\* "Panic context:" once, then the text of every entry that is in the
\* panicking thread's store at the instant of the panic, one per line, in
\* ascending id order; with an empty store it is the header line alone.
C1_DumpInIdOrder ==
    \A t \in Threads :
        DumpWritten(t) =>
            /\ DumpPart(t) = ExpectedDump(VALUES[t].values)
            /\ hookrun[t].ids = [i \in 1 .. Cardinality(DOMAIN VALUES[t].values) |->
                                   KthKey(VALUES[t].values, i)]

\* C1 witness: a dump of two entries, made by handles created one after the
\* other, has been written
C1_Witness ==
    \E t \in Threads :
        /\ DumpWritten(t)
        /\ hookrun[t].ids = <<0, 1>>
        /\ Len(DumpPart(t)) = 5

\* C2: once update was called on an updatable handle, the store holds under
\* the handle's id the text prefix + the most recent value, every entry of
\* the store is filed under the id of a handle, and a dump prints that text
\* at the place the id has among the entries (its creation order), also when
\* the first update came after a later-created handle had its entry.
C2_UpdateInPlace ==
    \A t \in Threads :
        /\ DOMAIN VALUES[t].values \subseteq DOMAIN handles[t]
        /\ \A id \in DOMAIN handles[t] :
             LET h == handles[t][id]
                 m == VALUES[t].values
             IN (h.kind = "updatable" /\ h.updated) =>
                   /\ id \in DOMAIN m
                   /\ m[id] = h.prefix \o h.last
                   /\ DumpWritten(t) =>
                        /\ hookrun[t].ids[Rank(m, id)] = id
                        /\ hookrun[t].out[2 * Rank(m, id)] = h.prefix \o h.last

\* C2 witness: handle 0 is updatable, its first update came after handle 1
\* had an entry, it was updated again with another value, and a dump has
\* printed it before handle 1's entry
C2_Witness ==
    \E t \in Threads :
        /\ DumpWritten(t)
        /\ 0 \in DOMAIN handles[t]
        /\ handles[t][0].kind = "updatable"
        /\ handles[t][0].late
        /\ handles[t][0].last = "compilation"
        /\ hookrun[t].ids = <<0, 1>>
        /\ hookrun[t].out[2] = "step: compilation"

\* C3: the entry of a fixed-message handle whose scope has ended (by normal
\* exit or by unwinding) is not in the thread's store and no dump prints it;
\* the entry of one still in scope is in the store and a panic's dump prints
\* its message.
C3_ReleaseRemoves ==
    \A t \in Threads : \A id \in DOMAIN handles[t] :
        LET h == handles[t][id]
            m == VALUES[t].values
        IN h.kind = "fixed" =>
             /\ h.end # "" =>
                  /\ id \notin DOMAIN m
                  /\ id \notin Range(hookrun[t].ids)
             /\ h.end = "" =>
                  /\ id \in DOMAIN m
                  /\ m[id] = h.last
                  /\ DumpWritten(t) =>
                       /\ id \in Range(hookrun[t].ids)
                       /\ hookrun[t].out[2 * Rank(m, id)] = h.last

\* C3 witness: handle 0 was released by a panic unwinding through it, and a
\* later panic's dump prints handle 1, still in scope, and not handle 0
C3_Witness ==
    \E t \in Threads :
        /\ DumpWritten(t)
        /\ DOMAIN handles[t] = {0, 1}
        /\ handles[t][0].kind = "fixed"
        /\ handles[t][0].end = "unwind"
        /\ handles[t][1].kind = "fixed"
        /\ handles[t][1].end = ""
        /\ hookrun[t].ids = <<1>>

\* C4: the entry of an updatable handle that has gone out of scope is not
\* in the thread's store and no later dump prints it.
C4_UpdatableRemovedOnDrop ==
    \A t \in Threads : \A id \in DOMAIN handles[t] :
        (handles[t][id].kind = "updatable" /\ handles[t][id].end # "") =>
            /\ id \notin DOMAIN VALUES[t].values
            /\ id \notin Range(hookrun[t].ids)

\* The number of dump layers in a hook
RECURSIVE DumpLayers(_)
DumpLayers(hk) ==
    IF hk = <<>> THEN 0
    ELSE (IF Head(hk) = "dump" THEN 1 ELSE 0) + DumpLayers(Tail(hk))

\* The number of times x occurs in the sequence q
Occurrences(q, x) == Cardinality({i \in DOMAIN q : q[i] = x})

C6_StoresAreThreadLocal ==
    /\ [][\A u \in Threads :
            VALUES'[u] # VALUES[u] =>
                \A w \in Threads \ {u} :
                    /\ pc'[w] = pc[w]
                    /\ handles'[w] = handles[w]
                    /\ VALUES'[w] = VALUES[w]]_vars
    /\ [](\A t \in Threads :
            /\ Range(hookrun[t].ids) \subseteq DOMAIN handles[t]
            /\ DumpWritten(t) =>
                 \A i \in DOMAIN hookrun[t].ids :
                     hookrun[t].out[2 * i] = TextOf(handles[t][hookrun[t].ids[i]]))

\* C6 witness: t's dump has been written while the other thread's store
\* holds an entry with a text that t's dump does not have
C6_Witness ==
    \E t, u \in Threads :
        /\ t # u
        /\ DumpWritten(t)
        /\ Len(hookrun[t].ids) = 1
        /\ \E id \in DOMAIN VALUES[u].values :
             VALUES[u].values[id] \notin Range(hookrun[t].out)

\* The run of the hook for a panic raised after installation has ended on t
\* (it returned, or the process aborted inside it); the panic was not raised
\* inside a constructor's borrow of the store
HookEnded(t) ==
    /\ hookrun[t].installed
    /\ ~borrowed[t]
    /\ \/ pc[t] = "aborted"
       \/ pc[t] = "hook" /\ hookrun[t].hk = <<>>

\* C7: on every panic after installation the previous hook is called exactly
\* once, with the panic's info, after the dump.
C7_PreviousHookCalled ==
    \A t \in Threads :
        HookEnded(t) =>
            /\ hookrun[t].prevCalls = 1
            /\ hookrun[t].prevInfo = hookrun[t].info
            /\ hookrun[t].dumps = 1
            /\ hookrun[t].prevAt = Len(hookrun[t].out)

\* C8: a write error during the dump is swallowed: the dump does not panic
\* because of it and the previous hook is still called.
C8_WriteErrorsSwallowed ==
    \A t \in Threads :
        (HookEnded(t) /\ hookrun[t].ioerr) =>
            /\ ~hookrun[t].writePanicked
            /\ hookrun[t].prevCalls = 1

\* C9 (the "only if" half of the claim, for both flavors): an entry with id
\* i is in the mapping only if the handle that owns id i is in scope.
C9_EntryOnlyIfLive ==
    \A t \in Threads : \A id \in DOMAIN VALUES[t].values :
        /\ id \in DOMAIN handles[t]
        /\ handles[t][id].end = ""

\* C10: no constructor call fails: the lock is never poisoned and no call
\* panics inside ensure_initialized instead of returning a handle.
C10_NewNeverFails ==
    /\ ~poisoned
    /\ hist.failedNew = 0

\* C11: on each thread next_id never decreases and grows by one at a time; a
\* handle that appears in a step is filed under the value next_id had before
\* the step, which the step raises by one; a handle, once made, keeps its id
\* and is never replaced by another one; every id of a handle, live or
\* released, and every key of the mapping is below next_id.
C11_IdsNeverReused ==
    /\ [][\A t \in Threads :
            /\ VALUES'[t].next_id \in {VALUES[t].next_id, VALUES[t].next_id + 1}
            /\ DOMAIN handles[t] \subseteq DOMAIN handles'[t]
            /\ \A id \in DOMAIN handles'[t] \ DOMAIN handles[t] :
                 /\ id = VALUES[t].next_id
                 /\ VALUES'[t].next_id = id + 1
            /\ \A id \in DOMAIN handles[t] :
                 /\ handles'[t][id].kind = handles[t][id].kind
                 /\ handles'[t][id].prefix = handles[t][id].prefix
                 /\ handles[t][id].end # "" => handles'[t][id] = handles[t][id]]_vars
    /\ [](\A t \in Threads :
            \A id \in DOMAIN handles[t] \cup DOMAIN VALUES[t].values :
                id < VALUES[t].next_id)

\* C11 witness: a thread made an updatable handle and then a fixed-message
\* one, the first is released, and they hold ids 0 and 1 with next_id at 2
C11_Witness ==
    \E t \in Threads :
        /\ DOMAIN handles[t] = {0, 1}
        /\ handles[t][0].kind = "updatable"
        /\ handles[t][0].end # ""
        /\ handles[t][1].kind = "fixed"
        /\ VALUES[t].next_id = 2

\* C12: an updatable handle on which update was never called has no entry
\* in its thread's store, and a dump on that thread writes no line for it;
\* with no entry at all in the store the dump is the header line alone.
C12_NoEntryBeforeUpdate ==
    \A t \in Threads :
        /\ \A id \in DOMAIN handles[t] :
             (handles[t][id].kind = "updatable" /\ ~handles[t][id].updated) =>
                 /\ id \notin DOMAIN VALUES[t].values
                 /\ id \notin Range(hookrun[t].ids)
        /\ (DumpWritten(t) /\ DOMAIN VALUES[t].values = {}) =>
               DumpPart(t) = <<Header>>

\* C12 witness: a panic came while the thread's only handle was an updatable
\* one never updated, and the dump that was written is the header alone
C12_Witness ==
    \E t \in Threads :
        /\ DumpWritten(t)
        /\ DOMAIN handles[t] = {0}
        /\ handles[t][0].kind = "updatable"
        /\ ~handles[t][0].updated
        /\ handles[t][0].end = ""
        /\ VALUES[t].next_id = 1
        /\ DumpPart(t) = <<Header>>

\* An updatable handle on which update was called and whose scope has ended
ReleasedUpdated(h) == h.kind = "updatable" /\ h.updated /\ h.end # ""

OthersKept(t, id) ==
    /\ VALUES'[t].next_id = VALUES[t].next_id
    /\ \A j \in DOMAIN VALUES[t].values \ {id} :
         /\ j \in DOMAIN VALUES'[t].values
         /\ VALUES'[t].values[j] = VALUES[t].values[j]
    /\ DOMAIN VALUES'[t].values \ {id} \subseteq DOMAIN VALUES[t].values
    /\ MapIter(MapRemove(VALUES'[t].values, id)) = MapIter(MapRemove(VALUES[t].values, id))

\* C14: a step that releases a handle (its scope ends) or updates one (its
\* last text changes, or it gets its first text) leaves next_id and the key
\* and text of every entry other than the handle's own as they were, and so
\* their order; the release of a fixed-message handle removes its own key,
\* an update sets its own key.
C14_OwnSlotOnly ==
    [][\A t \in Threads : \A id \in DOMAIN handles[t] :
         LET h == handles[t][id]
             g == handles'[t][id]
         IN /\ (h.end = "" /\ g.end # "") =>
                  /\ OthersKept(t, id)
                  /\ h.kind = "fixed" => id \notin DOMAIN VALUES'[t].values
            /\ (h.kind = "updatable" /\ (g.last # h.last \/ g.updated # h.updated)) =>
                  /\ OthersKept(t, id)
                  /\ id \in DOMAIN VALUES'[t].values
                  /\ VALUES'[t].values[id] = h.prefix \o g.last]_vars

\* C14 witness: handle 0, updatable, got its first text when handle 1, made
\* after it, already had its entry, was updated again and was released
\* while handle 1 was still in scope (not the reverse of creation order);
\* handle 1's entry is as it was made and next_id is 2
C14_Witness ==
    \E t \in Threads :
        /\ DOMAIN handles[t] = {0, 1}
        /\ handles[t][0].kind = "updatable"
        /\ handles[t][0].late
        /\ handles[t][0].last = "compilation"
        /\ handles[t][0].end # ""
        /\ handles[t][1].kind = "fixed"
        /\ handles[t][1].end = ""
        /\ DOMAIN VALUES[t].values = {0, 1}
        /\ VALUES[t].values[0] = "step: compilation"
        /\ VALUES[t].values[1] = "i=2"
        /\ VALUES[t].next_id = 2

\* C16: whenever the dump hook runs on a thread, the thread's store is not
\* mutably borrowed, and the hook's traces.borrow() does not panic.
C16_HookBorrowSucceeds ==
    \A t \in Threads :
        (pc[t] \in {"hook", "aborted"} /\ hookrun[t].installed) =>
            /\ ~borrowed[VALUES_with(t)]
            /\ hookrun[t].hookPanicked => hookrun[t].writePanicked

\* A slot was allocated on t: its id counter moved or its mapping has an entry
Allocated(t) == VALUES[t].next_id > 0 \/ DOMAIN VALUES[t].values # {}

\* Other code has taken the process hook away since the dump hook was installed
HookTaken == hist.sinceTaken >= 0

\* C15 (as amended): if any thread's store has next_id > 0 or a non-empty
\* mapping then the INITIALIZED flag is true and the dump hook has been
\* installed, once; it is still the process hook unless other code has
\* replaced the process hook since; short of that, the hook that runs for a
\* panic on a thread with an entry in its store is the dump hook.
C15_InstalledBeforeAllocated ==
    \A t \in Threads :
        /\ Allocated(t) =>
             /\ INITIALIZED
             /\ hist.installs = 1
             /\ ~HookTaken => Head(HOOK) = "dump"
        /\ (pc[t] = "hook" /\ DOMAIN VALUES[t].values # {} /\ ~HookTaken) =>
               hookrun[t].installed

\* C15 (as claimed): ... and the dump hook is installed, in every reachable
\* state; no panic occurs with an entry in the store and another hook.
C15_HookInstalledWheneverAllocated ==
    \A t \in Threads :
        /\ Allocated(t) =>
             /\ INITIALIZED
             /\ Head(HOOK) = "dump"
        /\ (pc[t] = "hook" /\ DOMAIN VALUES[t].values # {}) => hookrun[t].installed

\* C15 witness: the thread that ran init() has come back from
\* ensure_initialized and has not allocated yet, while the other thread has
\* made a handle already and panicked, and the dump hook printed its entry
C15_Witness ==
    \E t, u \in Threads :
        /\ pc[u] = "alloc"
        /\ ~Allocated(u)
        /\ Allocated(t)
        /\ DumpWritten(t)
        /\ hookrun[t].installed
        /\ Len(hookrun[t].ids) = 1
        /\ ~HookTaken

\* C17: the dump hook is installed at most once; from the moment other code
\* has replaced the process hook (after the first creation, the flag being
\* true) the flag stays true and the process hook holds no dump layer,
\* whatever handles are created afterwards; a panic's hook run then writes no
\* dump, only the report of the hook now registered, also with entries in
\* the panicking thread's store.
C17_NoReinstallAfterReplace ==
    /\ hist.installs <= 1
    /\ HookTaken =>
         /\ INITIALIZED
         /\ hist.installs = 1
         /\ DumpLayers(HOOK) = 0
         /\ \A t \in Threads :
              pc[t] = "hook" =>
                  /\ ~hookrun[t].installed
                  /\ hookrun[t].dumps = 0
                  /\ hookrun[t].ids = <<>>
                  /\ hookrun[t].hk = <<>> =>
                       hookrun[t].out = <<DefaultReport(hookrun[t].info)>>

\* C17 witness: other code took the hook after the first constructor call;
\* a second call, made after that, gave the thread a further handle; the
\* thread then panicked with both entries in its store and only the default
\* report was written
C17_Witness ==
    \E t \in Threads :
        /\ hist.sinceTaken = 1
        /\ hist.nNew = 2
        /\ DOMAIN handles[t] = {0, 1}
        /\ DOMAIN VALUES[t].values = {0, 1}
        /\ pc[t] = "hook"
        /\ hookrun[t].hk = <<>>
        /\ hookrun[t].out = <<DefaultReport("boom")>>
        /\ hist.installs = 1

====
